---- MODULE Spec2Model ----
(***************************************************************************)
(* Model of the ceramic stamp generator: the SVG -> STL converter           *)
(* (converter/convert.py) and the request handler (backend/main.py).       *)
(*                                                                         *)
(* Conventions.  Path coordinates are integers in drawing units.  A path   *)
(* description d is a sequence of lexemes (one command letter or one       *)
(* number literal each); the tokenizer keeps the lexemes its regular       *)
(* expression matches and skips the others, as re.findall does.            *)
(***************************************************************************)
EXTENDS Integers, Sequences, FiniteSets, TLC

VARIABLES
  d,           \* _path_to_linestring: the path description, as lexemes
  interp,      \* _path_to_linestring: tokens, i, cmd, x, y, start, pts + position
  raw_geoms,   \* convert_svg_to_stl: the primitives _extract_geometry returned
  converted,   \* convert_svg_to_stl: the primitives after the unify loop
  drawing,     \* the uploaded drawing (svg_bytes, parsed)
  call,        \* who calls convert_svg_to_stl, and the arguments
  scad_exists, \* trimesh.interfaces.scad.exists
  conv,        \* convert_svg_to_stl: geom, warnings, meshes, mode + position
  fs,          \* the temporary directory and the STL file in it
  handler,     \* generate: position and response
  poly,        \* _remove_small_holes: the polygon and the warnings passed in
  filtered,    \* _remove_small_holes: what it returned
  extracted    \* _extract_geometry: what it returned or raised

pathVars == <<d, interp>>

convVars == <<drawing, call, scad_exists, conv, fs, handler>>

holeVars == <<poly, filtered>>

vars ==
  <<d, interp, raw_geoms, converted, drawing, call, scad_exists, conv, fs, handler,
    poly, filtered, extracted>>

(***************************************************************************)
(* Bounds of the model                                                     *)
(***************************************************************************)
MaxLen == 4     \* longest arbitrary lexeme sequence fed to the interpreter
MaxWF == 7      \* longest well-formed path fed to the interpreter
MaxPts == 6     \* cap on the point list (the loop may otherwise not end)

(***************************************************************************)
(* Lexemes and float()                                                     *)
(***************************************************************************)
SupportedLetters == {"M", "m", "L", "l", "H", "h", "V", "v", "Z", "z"}

CurveLetters == {"C", "c", "S", "s", "Q", "q", "T", "t", "A", "a"}

\* float(s) for the number literals the model uses; float() of anything
\* else raises ValueError.
FloatTable ==
  ("2" :> 2) @@ ("-1" :> -1) @@ ("0" :> 0) @@ ("1" :> 1) @@ ("10" :> 10) @@ ("300" :> 300)

IsNumber(t) == t \in DOMAIN FloatTable

Float(t) == FloatTable[t]

\* Python's None, for the command and for the returned geometry
None == "None"

NoGeom == [type |-> "None"]

NoPoint == <<>>

\* re.findall(r"[MmLlHhVvZz]|-?\d*\.?\d+(?:[eE][-+]?\d+)?", d)
Tokenize(dd) == SelectSeq(dd, LAMBDA lx : lx \in SupportedLetters \/ IsNumber(lx))

(***************************************************************************)
(* _path_to_linestring                                                     *)
(***************************************************************************)
\* the locals after lines 98-102
PathStart(dd) ==
  [tokens |-> Tokenize(dd), i |-> 0, cmd |-> None, x |-> 0, y |-> 0,
   start |-> NoPoint, pts |-> <<>>, pc |-> "loop", result |-> NoGeom,
   exc |-> ""]

Raise(s, e) == [s EXCEPT !.pc = "raised", !.exc = e]

\* read_num succeeds n times from token index j (0-based)
ReadOk(s, j, n) ==
  \A k \in 0..(n - 1) : j + k < Len(s.tokens) /\ IsNumber(s.tokens[j + k + 1])

\* the exception of the first read_num that fails
ReadError(s, j, n) ==
  LET bad == {k \in 0..(n - 1) : ~(j + k < Len(s.tokens) /\ IsNumber(s.tokens[j + k + 1]))}
      k0 == CHOOSE k \in bad : \A m \in bad : k <= m
  IN IF j + k0 < Len(s.tokens) THEN "ValueError" ELSE "IndexError"

Num(s, j) == Float(s.tokens[j + 1])

\* a relative command adds its argument to the cursor, an absolute one sets it
CoordAbsolute(c, rel, cur, v) == v

\* lines 124-127, 134-137, 141-144, 148-151
Coord(c, rel, cur, v) == IF c = rel THEN cur + v ELSE v

\* pairs after a move stay moves
AfterMoveSame(c) == c

\* line 131: subsequent pairs treated as lineto
AfterMove(c) == IF c = "m" THEN "l" ELSE "L"

\* lines 122-157: the dispatch on cmd, the arguments starting at index j
ExecCommand(s, c, j) ==
  CASE c \in {"M", "m"} ->
         IF ~ReadOk(s, j, 2) THEN Raise(s, ReadError(s, j, 2))
         ELSE LET nx == Coord(c, "m", s.x, Num(s, j))
                  ny == Coord(c, "m", s.y, Num(s, j + 1))
              IN [s EXCEPT !.i = j + 2, !.x = nx, !.y = ny,
                           !.start = <<nx, ny>>,
                           !.pts = Append(@, <<nx, ny>>),
                           !.cmd = AfterMove(c)]
    [] c \in {"L", "l"} ->
         IF ~ReadOk(s, j, 2) THEN Raise(s, ReadError(s, j, 2))
         ELSE LET nx == Coord(c, "l", s.x, Num(s, j))
                  ny == Coord(c, "l", s.y, Num(s, j + 1))
              IN [s EXCEPT !.i = j + 2, !.x = nx, !.y = ny,
                           !.pts = Append(@, <<nx, ny>>)]
    [] c \in {"H", "h"} ->
         IF ~ReadOk(s, j, 1) THEN Raise(s, ReadError(s, j, 1))
         ELSE LET nx == Coord(c, "h", s.x, Num(s, j))
              IN [s EXCEPT !.i = j + 1, !.x = nx,
                           !.pts = Append(@, <<nx, s.y>>)]
    [] c \in {"V", "v"} ->
         IF ~ReadOk(s, j, 1) THEN Raise(s, ReadError(s, j, 1))
         ELSE LET ny == Coord(c, "v", s.y, Num(s, j))
              IN [s EXCEPT !.i = j + 1, !.y = ny,
                           !.pts = Append(@, <<s.x, ny>>)]
    [] c \in {"Z", "z"} ->
         [s EXCEPT !.i = j,
                   !.pts = IF s.start # NoPoint THEN Append(@, s.start) ELSE @]
    [] OTHER -> Raise(s, "ConvertError:UnsupportedPathCommand")

\* lines 109-157: one iteration of the while loop
PathStep(s) ==
  LET t == s.tokens[s.i + 1]
  IN IF t \in SupportedLetters
     THEN IF t \in {"Z", "z"}
          THEN [s EXCEPT !.cmd = t, !.i = @ + 1,
                         !.pts = IF s.start # NoPoint THEN Append(@, s.start) ELSE @]
          ELSE ExecCommand([s EXCEPT !.cmd = t, !.i = @ + 1], t, s.i + 1)
     ELSE IF s.cmd = None
          THEN Raise(s, "ConvertError:NumbersBeforeCommand")
          ELSE ExecCommand(s, s.cmd, s.i)

\* lines 159-161
PathReturn(s) ==
  IF Len(s.pts) < 3
  THEN [s EXCEPT !.pc = "returned", !.result = NoGeom]
  ELSE [s EXCEPT !.pc = "returned",
                 !.result = [type |-> "LineString", coords |-> s.pts]]


\* lines 91-96
PathEnter(dd) ==
  IF dd = <<>> \/ Tokenize(dd) = <<>>
  THEN [PathStart(dd) EXCEPT !.pc = "returned", !.result = NoGeom]
  ELSE PathStart(dd)

\* the whole call, for a caller that does not watch the loop.  An iteration
\* that stays in the loop without consuming a token repeats forever.
RECURSIVE PathRun(_)
PathRun(s) ==
  IF s.pc # "loop" THEN s
  ELSE IF s.i >= Len(s.tokens) THEN PathReturn(s)
  ELSE LET iterate(n) == IF n.pc = "loop" /\ n.i = s.i THEN [s EXCEPT !.pc = "hung"]
                          ELSE PathRun(n)
       IN iterate(PathStep(s))

PathToLinestring(dd) == PathRun(PathEnter(dd))

(***************************************************************************)
(* The parsed drawing.  A drawing is the node sequence root.iter() yields  *)
(* after the root, in document order; a node has a tag and attributes.     *)
(* Attribute values are strings, except d and points, which are lexeme     *)
(* sequences.                                                              *)
(***************************************************************************)
\* the tag of a comment node is not a string: etree.QName(el) raises ValueError
CommentTag == "<!---->"

XLinkHref == "{http://www.w3.org/1999/xlink}href"

Node(tag, attrib) == [tag |-> tag, attrib |-> attrib]

NoAttrib == [a \in {} |-> ""]

\* str.lower() on the tag names the model uses
Lower(t) ==
  CASE t = "IMAGE" -> "image"
    [] t = "Rect" -> "rect"
    [] t = "Engraved" -> "engraved"
    [] OTHER -> t

\* the href values the model uses
HrefPng == "stamp.png"

HrefDataPng == "data:image/png;base64,iVBORw0KGgo="

HrefDataSvg == "data:image/svg+xml;base64,PHN2Zz48L3N2Zz4="

HrefDataSvgPng == "data:image/svg+xml;name=a.png"

HrefFragment == "#clip0"

\* href.startswith("data:")
StartsWithData(h) == h \in {HrefDataPng, HrefDataSvg, HrefDataSvgPng}

\* "image/svg+xml" in href
ContainsSvgMime(h) == h \in {HrefDataSvg, HrefDataSvgPng}

\* re.search(r"\.(png|jpg|jpeg|gif|bmp|webp)(\?|#|$)", href, re.I)
HasRasterExtension(h) == h \in {HrefPng, HrefDataSvgPng}

\* lines 64-72: the href attributes of one element
HrefIsRaster(el) ==
  \E attr \in {"href", XLinkHref} :
    /\ attr \in DOMAIN el.attrib
    /\ \/ StartsWithData(el.attrib[attr]) /\ ~ContainsSvgMime(el.attrib[attr])
       \/ HasRasterExtension(el.attrib[attr])

\* lines 59-73, from node k on: "True", "False", or the ValueError of QName
RECURSIVE RasterScan(_, _)
RasterScan(nodes, k) ==
  IF k > Len(nodes) THEN "False"
  ELSE IF nodes[k].tag = CommentTag THEN "ValueError"
  ELSE IF Lower(nodes[k].tag) = "image" THEN "True"
  ELSE IF HrefIsRaster(nodes[k]) THEN "True"
  ELSE RasterScan(nodes, k + 1)

HasRasterImages(nodes) == RasterScan(nodes, 1)

ALLOWED_SHAPES == {"path", "rect", "circle", "ellipse", "polygon", "polyline"}

\* el.attrib.get(name, 0) followed by float(): the number, or "bad"
AttrOk(el, name) == name \notin DOMAIN el.attrib \/ IsNumber(el.attrib[name])

AttrNum(el, name) == IF name \in DOMAIN el.attrib THEN Float(el.attrib[name]) ELSE 0

\* _parse_points, lines 75-84: the lexemes paired up, an odd last one dropped
ParsePoints(points) ==
  [k \in 1..(Len(points) \div 2) |-> <<Float(points[2 * k - 1]), Float(points[2 * k])>>]

PointsOk(points) == \A k \in DOMAIN points : IsNumber(points[k])

Polygon(coords) == [type |-> "Polygon", coords |-> coords]

LineString(coords) == [type |-> "LineString", coords |-> coords]

\* lines 178-210: what one shape element adds: [exc, geoms].  A circle or
\* an ellipse is kept as the four vertices of its polygon that lie on the
\* axes through its centre.
ExtractShape(el) ==
  LET tag == Lower(el.tag)
      one(g) == [exc |-> "", geoms |-> <<g>>]
      none == [exc |-> "", geoms |-> <<>>]
      fail(e) == [exc |-> e, geoms |-> <<>>]
  IN CASE tag = "path" ->
            LET line(r) == IF r.pc = "hung" THEN fail("Hang")
                           ELSE IF r.pc = "raised" THEN fail(r.exc)
                           ELSE IF r.result # NoGeom THEN one(r.result) ELSE none
            IN line(PathToLinestring(IF "d" \in DOMAIN el.attrib THEN el.attrib["d"]
                                     ELSE <<>>))
       [] tag = "rect" ->
            IF ~(AttrOk(el, "x") /\ AttrOk(el, "y") /\ AttrOk(el, "width") /\ AttrOk(el, "height"))
            THEN fail("ValueError")
            ELSE LET x == AttrNum(el, "x")
                     y == AttrNum(el, "y")
                     w == AttrNum(el, "width")
                     h == AttrNum(el, "height")
                 IN IF w > 0 /\ h > 0
                    THEN one(Polygon(<<<<x, y>>, <<x + w, y>>, <<x + w, y + h>>, <<x, y + h>>>>))
                    ELSE none
       [] tag = "circle" ->
            IF ~(AttrOk(el, "cx") /\ AttrOk(el, "cy") /\ AttrOk(el, "r"))
            THEN fail("ValueError")
            ELSE LET cx == AttrNum(el, "cx")
                     cy == AttrNum(el, "cy")
                     r == AttrNum(el, "r")
                 IN IF r > 0
                    THEN one(Polygon(<<<<cx + r, cy>>, <<cx, cy - r>>, <<cx - r, cy>>, <<cx, cy + r>>>>))
                    ELSE none
       [] tag = "ellipse" ->
            IF ~(AttrOk(el, "cx") /\ AttrOk(el, "cy") /\ AttrOk(el, "rx") /\ AttrOk(el, "ry"))
            THEN fail("ValueError")
            ELSE LET cx == AttrNum(el, "cx")
                     cy == AttrNum(el, "cy")
                     rx == AttrNum(el, "rx")
                     ry == AttrNum(el, "ry")
                 IN IF rx > 0 /\ ry > 0
                    THEN one(Polygon(<<<<cx + rx, cy>>, <<cx, cy - ry>>, <<cx - rx, cy>>, <<cx, cy + ry>>>>))
                    ELSE none
       [] OTHER ->
            LET points == IF "points" \in DOMAIN el.attrib THEN el.attrib["points"] ELSE <<>>
            IN IF ~PointsOk(points) THEN fail("ValueError")
               ELSE IF Len(ParsePoints(points)) >= 3
                    THEN IF tag = "polyline" THEN one(LineString(ParsePoints(points)))
                         ELSE one(Polygon(ParsePoints(points)))
                    ELSE none

\* lines 172-210, from node k on, geoms collected so far
RECURSIVE ExtractShapes(_, _, _)
ExtractShapes(nodes, k, geoms) ==
  IF k > Len(nodes) THEN [exc |-> "", geoms |-> geoms]
  ELSE IF nodes[k].tag = CommentTag THEN [exc |-> "ValueError", geoms |-> <<>>]
  ELSE IF Lower(nodes[k].tag) \notin ALLOWED_SHAPES THEN ExtractShapes(nodes, k + 1, geoms)
  ELSE LET shape(r) == IF r.exc # "" THEN [exc |-> r.exc, geoms |-> <<>>]
                        ELSE ExtractShapes(nodes, k + 1, geoms \o r.geoms)
       IN shape(ExtractShape(nodes[k]))

\* _extract_geometry, lines 163-215, on a drawing [wellformed, nodes]
ExtractGeometry(svg) ==
  IF ~svg.wellformed THEN [exc |-> "ConvertError:InvalidInput", geoms |-> <<>>]
  ELSE LET shapes(r) ==
             IF r.exc # "" THEN r
             ELSE IF r.geoms = <<>>
                  THEN [exc |-> "ConvertError:EmptyGeometry", geoms |-> <<>>]
                  ELSE r
           scanned(raster) ==
             IF raster = "ValueError" THEN [exc |-> "ValueError", geoms |-> <<>>]
             ELSE IF raster = "True"
                  THEN [exc |-> "ConvertError:UnsupportedContent", geoms |-> <<>>]
                  ELSE shapes(ExtractShapes(svg.nodes, 1, <<>>))
       IN scanned(HasRasterImages(svg.nodes))

(***************************************************************************)
(* convert_svg_to_stl: the unify loop                                      *)
(* Lengths of the pipeline are in hundredths of a unit (1.4 is 140).       *)
(***************************************************************************)
DefaultMinLine == 140

BufferFloor == 1

Max(a, b) == IF a >= b THEN a ELSE b

Min(a, b) == IF a <= b THEN a ELSE b

\* max(min_line_mm/2.0, 0.01)
HalfWidth(min_line) == Max(min_line \div 2, BufferFloor)

\* lines 317-326: one primitive of the unify loop.  A band keeps the curve
\* it was buffered from and the buffer distance.
UnifyGeom(g, min_line) ==
  IF g.type = "LineString"
  THEN [type |-> "Polygon", coords |-> g.coords, half |-> HalfWidth(min_line)]
  ELSE [type |-> "Polygon", coords |-> g.coords, half |-> 0]

(***************************************************************************)
(* Planar geometry of the pipeline.  The drawings of the model hold        *)
(* rectangles and curves whose segments are parallel to the axes and turn  *)
(* by right angles, for which the band of buffer(half, cap_style=2,        *)
(* join_style=2) is the union of one rectangle per segment and one square  *)
(* per corner.  A region is [coords, half, interiors, scale]: the curve    *)
(* or ring it comes from (drawing units), the half-width of the band       *)
(* around it (hundredths; 0 for a filled ring), the areas of its holes     *)
(* before scaling (0.0001 square units) and the factor <<num, den>> it     *)
(* has been scaled by.                                                     *)
(***************************************************************************)
Unit == 100

SetMin(S) == CHOOSE v \in S : \A w \in S : v <= w

SetMax(S) == CHOOSE v \in S : \A w \in S : v >= w

\* the boxes <<minx, miny, maxx, maxy>> (hundredths) that make up a primitive
Boxes(p) ==
  LET c == p.coords
      n == Len(c)
      h == p.half
      X(k) == c[k][1] * Unit
      Y(k) == c[k][2] * Unit
      seg == {<<Min(X(k), X(k + 1)) - (IF X(k) = X(k + 1) THEN h ELSE 0),
                Min(Y(k), Y(k + 1)) - (IF Y(k) = Y(k + 1) THEN h ELSE 0),
                Max(X(k), X(k + 1)) + (IF X(k) = X(k + 1) THEN h ELSE 0),
                Max(Y(k), Y(k + 1)) + (IF Y(k) = Y(k + 1) THEN h ELSE 0)>> :
              k \in {j \in 1..(n - 1) : c[j] # c[j + 1]}}
      turn(k) == /\ c[k - 1] # c[k] /\ c[k] # c[k + 1]
                 /\ (c[k - 1][1] = c[k][1]) # (c[k][1] = c[k + 1][1])
      corner == {<<X(k) - h, Y(k) - h, X(k) + h, Y(k) + h>> :
                 k \in {j \in 2..(n - 1) : turn(j)}}
  IN IF h = 0
     THEN {<<SetMin({X(k) : k \in 1..n}), SetMin({Y(k) : k \in 1..n}),
             SetMax({X(k) : k \in 1..n}), SetMax({Y(k) : k \in 1..n})>>}
     ELSE seg \cup corner

\* buffering a curve of no length with flat caps leaves nothing
IsEmptyPrimitive(p) == Boxes(p) = {}

\* the hole of the band around a closed rectangular loop
BandHoles(p) ==
  LET c == p.coords
      xs == {c[k][1] * Unit : k \in DOMAIN c}
      ys == {c[k][2] * Unit : k \in DOMAIN c}
      w == SetMax(xs) - SetMin(xs) - 2 * p.half
      h == SetMax(ys) - SetMin(ys) - 2 * p.half
  IN IF p.half > 0 /\ Len(c) = 5 /\ c[1] = c[5] /\ w > 0 /\ h > 0
     THEN <<w * h>>
     ELSE <<>>

Region(p) ==
  [coords |-> p.coords, half |-> p.half, interiors |-> BandHoles(p), scale |-> <<1, 1>>]

\* .bounds of a geometry, in hundredths, before its scale is applied
Bounds(g) ==
  LET bs == UNION {Boxes(g.geoms[k]) : k \in DOMAIN g.geoms}
  IN <<SetMin({b[1] : b \in bs}), SetMin({b[2] : b \in bs}),
       SetMax({b[3] : b \in bs}), SetMax({b[4] : b \in bs})>>

EmptyCollection == [type |-> "GeometryCollection", geoms |-> <<>>]

\* unary_union of polygons that do not touch: the ones that are not empty
UnaryUnion(polys) ==
  LET kept == SelectSeq(polys, LAMBDA p : ~IsEmptyPrimitive(p))
      regions == [k \in DOMAIN kept |-> Region(kept[k])]
  IN IF regions = <<>> THEN EmptyCollection
     ELSE [type |-> IF Len(regions) = 1 THEN "Polygon" ELSE "MultiPolygon",
           geoms |-> regions]

(***************************************************************************)
(* Geometry Normalizer: _remove_small_holes and _clean_geometry            *)
(***************************************************************************)
\* min_hole_area_mm2 = 0.35 * 0.35, in 0.0001 square units (line 297)
MinHoleArea == 1225

\* p/q >= r/s for p, r >= 0 and q, s > 0, without forming the cross products
RECURSIVE FracGE(_, _, _, _)
FracGE(p, q, r, s) ==
  IF p \div q # r \div s THEN p \div q > r \div s
  ELSE IF r % s = 0 THEN TRUE
  ELSE IF p % q = 0 THEN FALSE
  ELSE FracGE(s, r % s, q, p % q)

\* a hole of exactly the threshold area is dropped as well
HoleKeptStrict(hole, scale, thr) ==
  ~FracGE(scale[2] * scale[2], scale[1] * scale[1], hole, thr)

\* line 271: hole.area >= min_hole_area_mm2, for a hole of area hole in a
\* region scaled by scale[1] / scale[2]
HoleKept(hole, scale, thr) ==
  FracGE(hole, thr, scale[2] * scale[2], scale[1] * scale[1])

SmallHoleWarning(removed) == <<"Removed small hole(s) to improve printability.", removed>>

\* _remove_small_holes, lines 264-277: [poly, warnings]
RemoveSmallHoles(pg, min_hole_area, warnings) ==
  IF pg.interiors = <<>> THEN [poly |-> pg, warnings |-> warnings]
  ELSE LET keep == SelectSeq(pg.interiors, LAMBDA ring : HoleKept(ring, pg.scale, min_hole_area))
           removed == Len(pg.interiors) - Len(keep)
       IN [poly |-> [pg EXCEPT !.interiors = keep],
           warnings |-> IF removed # 0
                        THEN Append(warnings, SmallHoleWarning(removed))
                        ELSE warnings]

\* lines 295-298, from polygon k on
RECURSIVE FilterHoles(_, _, _, _)
FilterHoles(polys, k, polys2, warnings) ==
  IF k > Len(polys) THEN [geoms |-> polys2, warnings |-> warnings]
  ELSE LET r == RemoveSmallHoles(polys[k], MinHoleArea, warnings)
       IN FilterHoles(polys, k + 1, Append(polys2, r.poly), r.warnings)

\* _clean_geometry, lines 279-299: [exc, geom, warnings]
CleanGeometry(g, warnings) ==
  IF g.geoms = <<>>
  THEN [exc |-> "ConvertError:EmptyGeometry", geom |-> g, warnings |-> warnings]
  ELSE LET r == FilterHoles(g.geoms, 1, <<>>, warnings)
       IN [exc |-> "", geom |-> [type |-> "MultiPolygon", geoms |-> r.geoms],
           warnings |-> r.warnings]

(***************************************************************************)
(* Scaler/Centerer and Minimum-Width Enforcer                              *)
(***************************************************************************)
ScaledDownWarning ==
  <<"The SVG was scaled down significantly; very fine details may be lost in printing.", 0>>

LargeMinLineWarning == <<"Minimum line thickness is large; small details may be merged.", 0>>

\* _normalize_to_size, lines 217-235: [exc, geom, warnings]
NormalizeToSize(g, target_size, warnings) ==
  LET b == Bounds(g)
      w == b[3] - b[1]
      h == b[4] - b[2]
  IN IF w <= 0 \/ h <= 0
     THEN [exc |-> "ConvertError:DegenerateBounds", geom |-> g, warnings |-> warnings]
     ELSE IF target_size <= 0
          THEN [exc |-> "ConvertError:ScaleFactor", geom |-> g, warnings |-> warnings]
          ELSE [exc |-> "",
                geom |-> [g EXCEPT !.geoms =
                            [k \in DOMAIN g.geoms |->
                               [g.geoms[k] EXCEPT !.scale = <<target_size, Max(w, h)>>]]],
                warnings |-> IF 2 * target_size < Max(w, h)
                             THEN Append(warnings, ScaledDownWarning)
                             ELSE warnings]

\* _buffer_to_min_line, lines 237-262: [exc, geom, warnings].  A line is
\* buffered by half; a Polygon or MultiPolygon only by zero.
BufferToMinLine(g, min_line, warnings) ==
  LET half == HalfWidth(min_line)
      u == IF g.type = "LineString"
           THEN [g EXCEPT !.type = "Polygon",
                          !.geoms = [k \in DOMAIN g.geoms |-> [g.geoms[k] EXCEPT !.half = half]]]
           ELSE [g EXCEPT !.type = IF Len(g.geoms) = 1 THEN "Polygon" ELSE "MultiPolygon"]
  IN IF u.geoms = <<>>
     THEN [exc |-> "ConvertError:EmptyGeometry", geom |-> u, warnings |-> warnings]
     ELSE [exc |-> "", geom |-> u,
           warnings |-> IF half > Unit THEN Append(warnings, LargeMinLineWarning)
                        ELSE warnings]

(***************************************************************************)
(* Mesh Builder and Exporter.  A mesh is a term: the operation that made   *)
(* it and what it was made from; z is its extent in height (hundredths).   *)
(***************************************************************************)
\* lines 335-336: box(extents) moved up by half its height
BaseSlab(size, base_mm) ==
  [op |-> "box", extents |-> <<size, size, base_mm>>, z |-> <<0, base_mm>>]

\* lines 344-346: extrude_polygon(p, height) placed on top of the base
Extrude(p, height, base_mm) ==
  [op |-> "extrude", region |-> p, z |-> <<base_mm, base_mm + height>>]

Concatenate(meshes) == [op |-> "concatenate", parts |-> meshes]

BooleanUnion(meshes) == [op |-> "union", parts |-> meshes]

BooleanDifference(meshes) == [op |-> "difference", parts |-> meshes]

\* apply_translation((0, 0, dz)) on a concatenation of extrusions
TranslateZ(m, dz) ==
  [m EXCEPT !.parts = [k \in DOMAIN m.parts |->
                         [m.parts[k] EXCEPT !.z = <<@[1] + dz, @[2] + dz>>]]]

\* lines 340-347: one mesh per region of positive area
ReliefMeshes(g, relief_mm, base_mm) ==
  LET solid == SelectSeq(g.geoms, LAMBDA p : ~IsEmptyPrimitive(p))
  IN [k \in DOMAIN solid |-> Extrude(solid[k], relief_mm, base_mm)]

ScadMissingRaised ==
  <<"OpenSCAD not found in container; exported as multi-solid STL (still printable).", 0>>

ScadMissingEngraved ==
  <<"OpenSCAD not found in container; engraved mode approximated (no boolean).", 0>>

\* the engraved fallback stays silent
CombineSilentFallback(mode, exists, base, relief, relief_mm, warnings) ==
  IF mode = "raised"
  THEN [stamp |-> IF exists THEN BooleanUnion(<<base, relief>>)
                  ELSE Concatenate(<<base, relief>>),
        warnings |-> IF ~exists THEN Append(warnings, ScadMissingRaised) ELSE warnings]
  ELSE LET cutter == TranslateZ(relief, -relief_mm)
       IN IF exists
          THEN [stamp |-> BooleanDifference(<<base, cutter>>), warnings |-> warnings]
          ELSE [stamp |-> base, warnings |-> warnings]

\* lines 360-372: [stamp, warnings]; exists is trimesh.interfaces.scad.exists
Combine(mode, exists, base, relief, relief_mm, warnings) ==
  IF mode = "raised"
  THEN [stamp |-> IF exists THEN BooleanUnion(<<base, relief>>)
                  ELSE Concatenate(<<base, relief>>),
        warnings |-> IF ~exists THEN Append(warnings, ScadMissingRaised) ELSE warnings]
  ELSE LET cutter == TranslateZ(relief, -relief_mm)
       IN IF exists
          THEN [stamp |-> BooleanDifference(<<base, cutter>>), warnings |-> warnings]
          ELSE [stamp |-> base, warnings |-> Append(warnings, ScadMissingEngraved)]

IsRectangle(c) ==
  /\ Len(c) = 4
  /\ c[1][2] = c[2][2] /\ c[2][1] = c[3][1] /\ c[3][2] = c[4][2] /\ c[4][1] = c[1][1]

\* a filled rectangle that, scaled, is as wide and as deep as the slab
CoversSlab(m, slab) ==
  LET p == m.region
      b == CHOOSE bb \in Boxes(p) : TRUE
  IN /\ p.half = 0 /\ p.interiors = <<>> /\ IsRectangle(p.coords)
     /\ (b[3] - b[1]) * p.scale[1] >= slab.extents[1] * p.scale[2]
     /\ (b[4] - b[2]) * p.scale[1] >= slab.extents[2] * p.scale[2]
     /\ m.z[1] <= slab.z[1] /\ m.z[2] >= slab.z[2]

\* stamp.is_empty (line 375): a slab from which a cutter that contains it
\* has been subtracted
IsEmptyMesh(m) ==
  /\ m.op = "difference"
  /\ \E k \in DOMAIN m.parts[2].parts : CoversSlab(m.parts[2].parts[k], m.parts[1])

\* stamp.process(validate=True), line 377
Process(m) == [op |-> "process", parts |-> <<m>>]

\* lines 382-393 (the footprint area is left out)
DimensionReport(args, mode, warnings) ==
  [size_mm |-> args.size_mm, base_mm |-> args.base_mm, relief_mm |-> args.relief_mm,
   mode |-> mode,
   bbox_mm |-> <<-(args.size_mm \div 2), -(args.size_mm \div 2),
                 args.size_mm \div 2, args.size_mm \div 2>>,
   warnings |-> warnings]

(***************************************************************************)
(* The parts of the state a specification leaves alone                     *)
(***************************************************************************)
NoMesh == [op |-> "none"]

NoDrawing == [wellformed |-> TRUE, nodes |-> <<>>, nbytes |-> 0]

NoCall ==
  [caller |-> "none", size_mm |-> 0, mode |-> "", base_mm |-> 0, relief_mm |-> 0,
   min_line_mm |-> 0, filename |-> ""]

NoReport == [mode |-> ""]

NoResponse == [status |-> 0, body |-> ""]

\* class ConvertError, line 54: the messages the converter raises it with
ConvertErrors ==
  {"ConvertError:InvalidInput", "ConvertError:UnsupportedContent",
   "ConvertError:EmptyGeometry", "ConvertError:NumbersBeforeCommand",
   "ConvertError:UnsupportedPathCommand", "ConvertError:DegenerateBounds",
   "ConvertError:ScaleFactor", "ConvertError:EmptyResult", "ConvertError:Mode",
   "ConvertError:MeshEmpty"}

ConvStart(pc) ==
  [pc |-> pc, exc |-> "", geom |-> EmptyCollection, warnings |-> <<>>, base |-> NoMesh,
   relief |-> NoMesh, stamp |-> NoMesh, mode |-> "", report |-> NoReport]

NoFiles == [tempdir |-> "none", out_file |-> "absent"]

IdlePath ==
  /\ d = <<>>
  /\ interp = [PathStart(<<>>) EXCEPT !.pc = "idle"]

IdleConvert ==
  /\ drawing = NoDrawing
  /\ call = NoCall
  /\ scad_exists = FALSE
  /\ conv = ConvStart("idle")
  /\ fs = NoFiles
  /\ handler = [pc |-> "none", response |-> NoResponse]

NoPoly == [coords |-> <<>>, half |-> 0, interiors |-> <<>>, scale |-> <<1, 1>>]

IdleHoles ==
  /\ poly = [poly |-> NoPoly, warnings |-> <<>>]
  /\ filtered = [pc |-> "idle", poly |-> NoPoly, warnings |-> <<>>]

NotExtracted == [pc |-> "idle", exc |-> "", geoms |-> <<>>]

(***************************************************************************)
(* The path interpreter, one loop iteration per step, followed by what     *)
(* _extract_geometry and the unify loop do with its result                 *)
(***************************************************************************)
NumberLiterals == {"2", "-1"}

Lexemes == SupportedLetters \cup NumberLiterals \cup {"C", "a"}

\* every lexeme sequence of at most MaxLen lexemes
ArbitraryPaths == UNION {[1..n -> Lexemes] : n \in 0..MaxLen}

NumSeqs(k) == [1..k -> NumberLiterals]

\* the command groups of exactly k tokens: a letter and the numbers it takes,
\* once or repeated
Groups(k) ==
  (IF k = 1 THEN {<<"Z">>, <<"z">>} ELSE {})
  \cup (IF k >= 2 THEN {<<c>> \o a : c \in {"H", "h", "V", "v"}, a \in NumSeqs(k - 1)}
        ELSE {})
  \cup (IF k >= 3 /\ (k - 1) % 2 = 0
        THEN {<<c>> \o a : c \in {"M", "m", "L", "l"}, a \in NumSeqs(k - 1)}
        ELSE {})

MoveGroups(k) == {g \in Groups(k) : g[1] \in {"M", "m"}}

RECURSIVE GroupSeqs(_)
GroupSeqs(n) ==
  IF n = 0 THEN {<<>>}
  ELSE UNION {{g \o t : g \in Groups(k), t \in GroupSeqs(n - k)} : k \in 1..n}

\* the paths of exactly n tokens that start with a move and give every
\* command the numbers it takes
WellFormedOfLen(n) ==
  UNION {{g \o t : g \in MoveGroups(k), t \in GroupSeqs(n - k)} : k \in 1..n}

WellFormedPaths == UNION {WellFormedOfLen(n) : n \in 1..MaxWF}

\* a short well-formed path followed by one stray lexeme
StrayPaths ==
  {p \o <<t>> : p \in UNION {WellFormedOfLen(n) : n \in 1..MaxLen}, t \in Lexemes}

PathInputs == ArbitraryPaths \cup WellFormedPaths \cup StrayPaths

InitPath ==
  /\ d \in PathInputs
  /\ interp = [PathStart(<<>>) EXCEPT !.pc = "entry"]
  /\ raw_geoms = <<>>
  /\ converted = <<>>
  /\ IdleConvert
  /\ IdleHoles
  /\ extracted = NotExtracted

AtToken == interp.pc = "loop" /\ interp.i < Len(interp.tokens)

CurToken == interp.tokens[interp.i + 1]

\* lines 91-102
Enter ==
  /\ interp.pc = "entry"
  /\ interp' = PathEnter(d)
  /\ UNCHANGED <<d, raw_geoms, converted, convVars, holeVars, extracted>>

\* a command letter other than Z/z, with its arguments
StepCommand ==
  /\ AtToken
  /\ CurToken \in SupportedLetters \ {"Z", "z"}
  /\ interp' = PathStep(interp)
  /\ UNCHANGED <<d, raw_geoms, converted, convVars, holeVars, extracted>>

\* lines 113-116
StepClose ==
  /\ AtToken
  /\ CurToken \in {"Z", "z"}
  /\ interp' = PathStep(interp)
  /\ UNCHANGED <<d, raw_geoms, converted, convVars, holeVars, extracted>>

\* lines 119-120
StepNoCommand ==
  /\ AtToken
  /\ CurToken \notin SupportedLetters
  /\ interp.cmd = None
  /\ interp' = PathStep(interp)
  /\ UNCHANGED <<d, raw_geoms, converted, convVars, holeVars, extracted>>

\* a number where a command letter could stand: the previous command again
StepImplicit ==
  /\ AtToken
  /\ CurToken \notin SupportedLetters
  /\ interp.cmd # None
  /\ Len(interp.pts) < MaxPts
  /\ interp' = PathStep(interp)
  /\ UNCHANGED <<d, raw_geoms, converted, convVars, holeVars, extracted>>

\* lines 159-161
Return ==
  /\ interp.pc = "loop"
  /\ interp.i >= Len(interp.tokens)
  /\ interp' = PathReturn(interp)
  /\ UNCHANGED <<d, raw_geoms, converted, convVars, holeVars, extracted>>

\* _extract_geometry lines 180-182
AppendPath ==
  /\ interp.pc = "returned"
  /\ interp' = [interp EXCEPT !.pc = "extracted"]
  /\ raw_geoms' = IF interp.result # NoGeom
                  THEN Append(raw_geoms, interp.result) ELSE raw_geoms
  /\ UNCHANGED <<d, converted, convVars, holeVars, extracted>>

\* convert_svg_to_stl lines 316-326
UnifyPath ==
  /\ interp.pc = "extracted"
  /\ interp' = [interp EXCEPT !.pc = "unified"]
  /\ converted' = [k \in DOMAIN raw_geoms |-> UnifyGeom(raw_geoms[k], DefaultMinLine)]
  /\ UNCHANGED <<d, raw_geoms, convVars, holeVars, extracted>>

NextPath ==
  \/ Enter
  \/ StepCommand
  \/ StepClose
  \/ StepNoCommand
  \/ StepImplicit
  \/ Return
  \/ AppendPath
  \/ UnifyPath

SpecPath == InitPath /\ [][NextPath]_vars

(***************************************************************************)
(* The hole filter on its own: _remove_small_holes applied, as             *)
(* _clean_geometry applies it, to one region                               *)
(***************************************************************************)
MaxHoles == 3   \* most holes of the region

\* hole areas around the threshold, in 0.0001 square units
HoleAreas == {1, 1224, 1225, 1226, 4900, 122500}

HoleScales == {<<1, 1>>, <<3, 1>>, <<1, 2>>, <<1, 10>>}

SquareRing == <<<<0, 0>>, <<10, 0>>, <<10, 10>>, <<0, 10>>>>

InitHoles ==
  /\ \E n \in 0..MaxHoles : \E rings \in [1..n -> HoleAreas] : \E sc \in HoleScales :
       \E w \in {<<>>, <<ScaledDownWarning>>} :
         poly = [poly |-> [coords |-> SquareRing, half |-> 0, interiors |-> rings,
                           scale |-> sc],
                 warnings |-> w]
  /\ filtered = [pc |-> "called", poly |-> NoPoly, warnings |-> <<>>]
  /\ IdlePath
  /\ raw_geoms = <<>>
  /\ converted = <<>>
  /\ IdleConvert
  /\ extracted = NotExtracted

\* _clean_geometry line 297
FilterRegion ==
  /\ filtered.pc = "called"
  /\ LET r == RemoveSmallHoles(poly.poly, MinHoleArea, poly.warnings)
     IN filtered' = [pc |-> "done", poly |-> r.poly, warnings |-> r.warnings]
  /\ UNCHANGED <<pathVars, raw_geoms, converted, convVars, poly, extracted>>

NextHoles == FilterRegion

SpecHoles == InitHoles /\ [][NextHoles]_vars

(***************************************************************************)
(* The Shape Extractor on its own: _extract_geometry on a parsed drawing   *)
(***************************************************************************)
MaxNodes == 3   \* most nodes of the drawing below its root

UnitSquarePath == <<"M", "0", "0", "H", "10", "V", "10", "H", "0", "Z">>

ElbowPoints(a) == <<"0", "0", a, "0", a, a>>

RasterNodes ==
  { Node("image", ("href" :> HrefPng)),
    Node("IMAGE", NoAttrib),
    Node("use", ("href" :> HrefPng)),
    Node("use", (XLinkHref :> HrefDataPng)),
    Node("use", ("href" :> HrefDataSvg)),
    Node("use", ("href" :> HrefDataSvgPng)),
    Node("use", ("href" :> HrefFragment)),
    Node("g", NoAttrib),
    Node(CommentTag, NoAttrib),
    Node("rect", ("width" :> "10") @@ ("height" :> "10")),
    Node("Rect", ("width" :> "100%") @@ ("height" :> "10")),
    Node("polyline", ("points" :> ElbowPoints("10"))),
    Node("path", ("d" :> <<"2", "-1">>)),
    Node("path", ("d" :> <<"Z", "2">>)) }

InitRaster ==
  /\ \E n \in 0..MaxNodes : \E nodes \in [1..n -> RasterNodes] : \E wf \in BOOLEAN :
       drawing = [wellformed |-> wf, nodes |-> nodes, nbytes |-> 200]
  /\ extracted = [NotExtracted EXCEPT !.pc = "called"]
  /\ IdlePath
  /\ raw_geoms = <<>>
  /\ converted = <<>>
  /\ call = NoCall
  /\ scad_exists = FALSE
  /\ conv = ConvStart("idle")
  /\ fs = NoFiles
  /\ handler = [pc |-> "none", response |-> NoResponse]
  /\ IdleHoles

\* lines 163-215
ExtractDrawing ==
  /\ extracted.pc = "called"
  /\ LET outcome(r) == [pc |-> IF r.exc = "Hang" THEN "hung"
                                ELSE IF r.exc # "" THEN "raised" ELSE "returned",
                         exc |-> r.exc, geoms |-> r.geoms]
     IN extracted' = outcome(ExtractGeometry(drawing))
  /\ UNCHANGED <<pathVars, raw_geoms, converted, convVars, holeVars>>

NextRaster == ExtractDrawing

SpecRaster == InitRaster /\ [][NextRaster]_vars

(***************************************************************************)
(* convert_svg_to_stl, one pipeline stage per step, called directly or by  *)
(* the request handler generate, which owns the temporary directory        *)
(***************************************************************************)
Drawing(nodes, nbytes) == [wellformed |-> TRUE, nodes |-> nodes, nbytes |-> nbytes]

SmallSquarePath == <<"M", "0", "0", "H", "1", "V", "1", "H", "0", "Z">>

ConvertDocs ==
  { [wellformed |-> FALSE, nodes |-> <<>>, nbytes |-> 200],
    Drawing(<<>>, 40),
    Drawing(<<Node("g", NoAttrib)>>, 200),
    Drawing(<<Node("image", ("href" :> HrefPng))>>, 200),
    Drawing(<<Node("rect", ("width" :> "10") @@ ("height" :> "10"))>>, 200),
    Drawing(<<Node("rect", ("width" :> "300") @@ ("height" :> "10"))>>, 200),
    Drawing(<<Node("polyline", ("points" :> ElbowPoints("10")))>>, 200),
    Drawing(<<Node("polyline", ("points" :> ElbowPoints("300")))>>, 200),
    Drawing(<<Node("path", ("d" :> UnitSquarePath))>>, 200),
    Drawing(<<Node("path", ("d" :> SmallSquarePath))>>, 200),
    Drawing(<<Node("path", ("d" :> <<"m", "2", "2", "Z", "z">>))>>, 200),
    Drawing(<<Node("path", ("d" :> <<"Z", "2">>))>>, 200),
    Drawing(<<Node("Rect", ("width" :> "100%") @@ ("height" :> "10"))>>, 200),
    Drawing(<<Node(CommentTag, NoAttrib),
              Node("rect", ("width" :> "10") @@ ("height" :> "10"))>>, 200) }

\* argument values inside and outside the handler's bounds (hundredths)
SizeValues == {0, 2500, 3000, 5000}

BaseValues == {200, 2500}

ReliefValues == {220, 700}

MinLineValues == {20, 40, 80, 140, 400}

ModeValues == {"raised", "engraved", "Engraved", "flat"}

ALLOWED_SIZES == {2500, 3000, 4000}

ALLOWED_MODES == {"raised", "engraved"}

InitConvert ==
  /\ drawing \in ConvertDocs
  /\ \E c \in {"direct", "handler"} :
       \E f \in (IF c = "direct" THEN {""} ELSE {"stamp.svg", "stamp.png"}) :
         call \in [caller : {c}, size_mm : SizeValues, mode : ModeValues,
                   base_mm : BaseValues, relief_mm : ReliefValues,
                   min_line_mm : MinLineValues, filename : {f}]
  /\ scad_exists \in BOOLEAN
  /\ conv = ConvStart(IF call.caller = "direct" THEN "extract" ELSE "idle")
  /\ fs = NoFiles
  /\ handler = [pc |-> IF call.caller = "direct" THEN "none" ELSE "request",
                response |-> NoResponse]
  /\ IdlePath
  /\ raw_geoms = <<>>
  /\ converted = <<>>
  /\ IdleHoles
  /\ extracted = NotExtracted

ConvRaise(e) == [conv EXCEPT !.pc = "raised", !.exc = e]

\* line 313
ConvExtract ==
  /\ conv.pc = "extract"
  /\ LET r == ExtractGeometry(drawing)
     IN /\ conv' = IF r.exc = "Hang" THEN [conv EXCEPT !.pc = "hung"]
                   ELSE IF r.exc # "" THEN ConvRaise(r.exc)
                   ELSE [conv EXCEPT !.pc = "unify"]
        /\ raw_geoms' = r.geoms
  /\ UNCHANGED <<pathVars, converted, drawing, call, scad_exists, fs, handler,
                 holeVars, extracted>>

\* lines 315-328
ConvUnify ==
  /\ conv.pc = "unify"
  /\ converted' = [k \in DOMAIN raw_geoms |-> UnifyGeom(raw_geoms[k], call.min_line_mm)]
  /\ conv' = [conv EXCEPT !.pc = "clean1", !.geom = UnaryUnion(converted')]
  /\ UNCHANGED <<pathVars, raw_geoms, drawing, call, scad_exists, fs, handler,
                 holeVars, extracted>>

ConvStage(r, next) ==
  /\ conv' = IF r.exc # "" THEN ConvRaise(r.exc)
             ELSE [conv EXCEPT !.pc = next, !.geom = r.geom, !.warnings = r.warnings]
  /\ UNCHANGED <<pathVars, raw_geoms, converted, drawing, call, scad_exists, fs, handler,
                 holeVars, extracted>>

\* line 329
ConvClean1 ==
  /\ conv.pc = "clean1"
  /\ ConvStage(CleanGeometry(conv.geom, conv.warnings), "normalize")

\* line 330
ConvNormalize ==
  /\ conv.pc = "normalize"
  /\ ConvStage(NormalizeToSize(conv.geom, call.size_mm, conv.warnings), "buffer")

\* line 331
ConvBuffer ==
  /\ conv.pc = "buffer"
  /\ ConvStage(BufferToMinLine(conv.geom, call.min_line_mm, conv.warnings), "clean2")

\* line 332
ConvClean2 ==
  /\ conv.pc = "clean2"
  /\ ConvStage(CleanGeometry(conv.geom, conv.warnings), "mesh")

\* lines 334-354
ConvMesh ==
  /\ conv.pc = "mesh"
  /\ LET meshes == ReliefMeshes(conv.geom, call.relief_mm, call.base_mm)
     IN conv' = IF meshes = <<>> THEN ConvRaise("ConvertError:EmptyResult")
                ELSE [conv EXCEPT !.pc = "mode",
                                  !.base = BaseSlab(call.size_mm, call.base_mm),
                                  !.relief = Concatenate(meshes)]
  /\ UNCHANGED <<pathVars, raw_geoms, converted, drawing, call, scad_exists, fs, handler,
                 holeVars, extracted>>

\* lines 356-358
ConvMode ==
  /\ conv.pc = "mode"
  /\ LET m == Lower(IF call.mode = "" THEN "raised" ELSE call.mode)
     IN conv' = IF m \notin {"raised", "engraved"} THEN ConvRaise("ConvertError:Mode")
                ELSE [conv EXCEPT !.pc = "combine", !.mode = m]
  /\ UNCHANGED <<pathVars, raw_geoms, converted, drawing, call, scad_exists, fs, handler,
                 holeVars, extracted>>

\* lines 360-372
ConvCombine ==
  /\ conv.pc = "combine"
  /\ LET r == Combine(conv.mode, scad_exists, conv.base, conv.relief, call.relief_mm,
                      conv.warnings)
     IN conv' = [conv EXCEPT !.pc = "export", !.stamp = r.stamp, !.warnings = r.warnings]
  /\ UNCHANGED <<pathVars, raw_geoms, converted, drawing, call, scad_exists, fs, handler,
                 holeVars, extracted>>

\* lines 374-380
ConvExport ==
  /\ conv.pc = "export"
  /\ IF IsEmptyMesh(conv.stamp)
     THEN conv' = ConvRaise("ConvertError:MeshEmpty") /\ fs' = fs
     ELSE /\ conv' = [conv EXCEPT !.pc = "report", !.stamp = Process(conv.stamp)]
          /\ fs' = [fs EXCEPT !.out_file = "written"]
  /\ UNCHANGED <<pathVars, raw_geoms, converted, drawing, call, scad_exists, handler,
                 holeVars, extracted>>

\* lines 382-393
ConvReport ==
  /\ conv.pc = "report"
  /\ conv' = [conv EXCEPT !.pc = "returned",
                          !.report = DimensionReport(call, conv.mode, conv.warnings)]
  /\ UNCHANGED <<pathVars, raw_geoms, converted, drawing, call, scad_exists, fs, handler,
                 holeVars, extracted>>

HandlerOnly == <<pathVars, raw_geoms, converted, drawing, call, scad_exists, holeVars, extracted>>

Respond(status, body) == [pc |-> "done", response |-> [status |-> status, body |-> body]]

\* main.py lines 41-45: the declared parameter types and ranges, which the
\* framework enforces before generate runs
HValidateQuery ==
  /\ handler.pc = "request"
  /\ handler' = IF /\ call.mode \in {"raised", "engraved"}
                   /\ call.base_mm >= 200 /\ call.base_mm <= 2000
                   /\ call.relief_mm >= 60 /\ call.relief_mm <= 600
                   /\ call.min_line_mm >= 40 /\ call.min_line_mm <= 400
                THEN [handler EXCEPT !.pc = "checks"]
                ELSE Respond(422, "validation error")
  /\ UNCHANGED <<HandlerOnly, conv, fs>>

\* main.py lines 47-57
HCheck ==
  /\ handler.pc = "checks"
  /\ handler' = IF call.size_mm \notin ALLOWED_SIZES THEN Respond(400, "Invalid size")
                ELSE IF call.mode \notin ALLOWED_MODES THEN Respond(400, "Invalid mode")
                ELSE IF call.filename # "stamp.svg" THEN Respond(400, "Please upload an SVG")
                ELSE IF drawing.nbytes < 50 THEN Respond(400, "empty or too small")
                ELSE [handler EXCEPT !.pc = "with"]
  /\ UNCHANGED <<HandlerOnly, conv, fs>>

\* main.py lines 60-64: enter the with block and call the converter
HEnterTempDir ==
  /\ handler.pc = "with"
  /\ handler' = [handler EXCEPT !.pc = "converting"]
  /\ fs' = [fs EXCEPT !.tempdir = "exists"]
  /\ conv' = [conv EXCEPT !.pc = "extract"]
  /\ UNCHANGED HandlerOnly

\* main.py lines 73-76
HCatch ==
  /\ handler.pc = "converting"
  /\ conv.pc = "raised"
  /\ handler' = [pc |-> "unwinding",
                 response |-> IF conv.exc \in ConvertErrors
                              THEN [status |-> 400, body |-> conv.exc]
                              ELSE [status |-> 500, body |-> "Unexpected error while converting."]]
  /\ UNCHANGED <<HandlerOnly, conv, fs>>

\* main.py lines 78-101: the response object names the file; nothing reads it yet
HBuildResponse ==
  /\ handler.pc = "converting"
  /\ conv.pc = "returned"
  /\ handler' = [pc |-> "returning", response |-> [status |-> 200, body |-> "stamp.stl"]]
  /\ UNCHANGED <<HandlerOnly, conv, fs>>

\* main.py line 60: leaving the with block removes the directory and its files
HExitWith ==
  /\ handler.pc \in {"unwinding", "returning"}
  /\ fs' = [tempdir |-> "released",
            out_file |-> IF fs.out_file = "written" THEN "deleted" ELSE fs.out_file]
  /\ handler' = [handler EXCEPT !.pc = IF handler.pc = "returning" THEN "send" ELSE "done"]
  /\ UNCHANGED <<HandlerOnly, conv>>

\* main.py lines 96-101: the framework sends the FileResponse generate
\* returned, which is when the file is opened and read
HSend ==
  /\ handler.pc = "send"
  /\ handler' = IF fs.out_file = "written"
                THEN [handler EXCEPT !.pc = "done"]
                ELSE Respond(500, "RuntimeError: File at path does not exist.")
  /\ UNCHANGED <<HandlerOnly, conv, fs>>

NextConvert ==
  \/ ConvExtract
  \/ ConvUnify
  \/ ConvClean1
  \/ ConvNormalize
  \/ ConvBuffer
  \/ ConvClean2
  \/ ConvMesh
  \/ ConvMode
  \/ ConvCombine
  \/ ConvExport
  \/ ConvReport
  \/ HValidateQuery
  \/ HCheck
  \/ HEnterTempDir
  \/ HCatch
  \/ HBuildResponse
  \/ HExitWith
  \/ HSend

SpecConvert == InitConvert /\ [][NextConvert]_vars

(***************************************************************************)
(* Properties of the path interpreter                                      *)
(***************************************************************************)
HasCurve(dd) == \E k \in DOMAIN dd : dd[k] \in CurveLetters

HasClose(tt) == \E k \in DOMAIN tt : tt[k] \in {"Z", "z"}

PathFinished == interp.pc \notin {"entry", "loop"}

\* the numbers that directly follow the token at position j
ArgRun(tt, j) ==
  Cardinality({k \in (j + 1)..Len(tt) : \A m \in (j + 1)..k : IsNumber(tt[m])})

ArgCountOk(c, n) ==
  CASE c \in {"Z", "z"} -> n = 0
    [] c \in {"H", "h", "V", "v"} -> n >= 1
    [] OTHER -> n >= 2 /\ n % 2 = 0

\* a path that starts with a move and gives each command the numbers it takes
WellFormed(tt) ==
  /\ Len(tt) > 0
  /\ tt[1] \in {"M", "m"}
  /\ \A j \in DOMAIN tt :
        tt[j] \in SupportedLetters => ArgCountOk(tt[j], ArgRun(tt, j))

\* C1: a path description that contains a curve or arc command letter fails
\* with the unsupported-command conversion error and never returns a result.
C1_CurveRejected ==
  (PathFinished /\ HasCurve(d)) =>
    (interp.pc = "raised" /\ interp.exc = "ConvertError:UnsupportedPathCommand")

\* C2: a path with a close command yields a closed curve that reaches the
\* pipeline as a closed region and is not buffered into a stroke band.
C2_ClosedPathKeptAsRegion ==
  (interp.pc = "unified" /\ HasClose(interp.tokens) /\ Len(converted) > 0) =>
    /\ interp.result.coords[1] = interp.result.coords[Len(interp.result.coords)]
    /\ converted[1].half = 0

\* the cursor, and the argument k (1, 2) of the command run by this iteration
Cursor(s) == <<s.x, s.y>>

EffCmd == IF CurToken \in SupportedLetters THEN CurToken ELSE interp.cmd

EffArg(k) ==
  Float(interp.tokens[(IF CurToken \in SupportedLetters THEN interp.i + 1 ELSE interp.i) + k])

CursorRule ==
  (AtToken /\ WellFormed(interp.tokens)) =>
    /\ interp'.pc = "loop"
    /\ CASE EffCmd = "M" -> /\ Cursor(interp') = <<EffArg(1), EffArg(2)>>
                            /\ interp'.start = Cursor(interp')
                            /\ interp'.cmd = "L"
                            /\ interp'.pts = Append(interp.pts, Cursor(interp'))
         [] EffCmd = "m" -> /\ Cursor(interp') = <<interp.x + EffArg(1), interp.y + EffArg(2)>>
                            /\ interp'.start = Cursor(interp')
                            /\ interp'.cmd = "l"
                            /\ interp'.pts = Append(interp.pts, Cursor(interp'))
         [] EffCmd = "L" -> /\ Cursor(interp') = <<EffArg(1), EffArg(2)>>
                            /\ interp'.pts = Append(interp.pts, Cursor(interp'))
         [] EffCmd = "l" -> /\ Cursor(interp') = <<interp.x + EffArg(1), interp.y + EffArg(2)>>
                            /\ interp'.pts = Append(interp.pts, Cursor(interp'))
         [] EffCmd = "H" -> /\ Cursor(interp') = <<EffArg(1), interp.y>>
                            /\ interp'.pts = Append(interp.pts, Cursor(interp'))
         [] EffCmd = "h" -> /\ Cursor(interp') = <<interp.x + EffArg(1), interp.y>>
                            /\ interp'.pts = Append(interp.pts, Cursor(interp'))
         [] EffCmd = "V" -> /\ Cursor(interp') = <<interp.x, EffArg(1)>>
                            /\ interp'.pts = Append(interp.pts, Cursor(interp'))
         [] EffCmd = "v" -> /\ Cursor(interp') = <<interp.x, interp.y + EffArg(1)>>
                            /\ interp'.pts = Append(interp.pts, Cursor(interp'))
         [] OTHER        -> /\ Cursor(interp') = Cursor(interp)
                            /\ interp'.start = interp.start
                            /\ interp'.pts = Append(interp.pts, interp.start)

\* C9: on a well-formed path every iteration appends the cursor, which an
\* absolute command sets and a relative command offsets; H keeps y, V keeps
\* x, pairs after a move are line-tos of the same absoluteness, and a close
\* appends the point of the most recent move and leaves the cursor alone.
C9_RunningCursor == [][CursorRule]_vars

\* a well-formed path has run a relative move, an implicit relative line-to
\* and a close
C9_Witness ==
  /\ interp.pc = "returned"
  /\ WellFormed(interp.tokens)
  /\ interp.tokens = <<"m", "2", "-1", "2", "2", "z">>
  /\ interp.result.coords = <<<<2, -1>>, <<4, 1>>, <<2, -1>>>>
  /\ Cursor(interp) = <<4, 1>>

\* C10: every iteration of the parsing loop consumes at least one token (or
\* leaves the loop), so the point list cannot outgrow the token list.
C10_LoopConsumesToken ==
  /\ AtToken =>
       (PathStep(interp).pc # "loop" \/ PathStep(interp).i > interp.i)
  /\ Len(interp.pts) <= Len(interp.tokens)

(***************************************************************************)
(* Properties of the hole filter and of the Shape Extractor                *)
(***************************************************************************)
Count(seq, v) == Cardinality({k \in DOMAIN seq : seq[k] = v})

AtLeastThreshold(hole, sc) == hole * sc[1] * sc[1] >= 1225 * sc[2] * sc[2]

NumRemoved == Len(poly.poly.interiors) - Len(filtered.poly.interiors)

\* C6: the hole filter removes exactly the holes smaller than 0.35*0.35,
\* keeps the others, leaves the exterior alone, and appends one warning
\* with the number removed exactly when it removed a hole.
C6_HoleFilter ==
  filtered.pc = "done" =>
    /\ \A hole \in HoleAreas :
         Count(filtered.poly.interiors, hole) =
           IF AtLeastThreshold(hole, poly.poly.scale)
           THEN Count(poly.poly.interiors, hole) ELSE 0
    /\ filtered.poly.coords = poly.poly.coords
    /\ filtered.poly.scale = poly.poly.scale
    /\ filtered.warnings =
         IF NumRemoved > 0
         THEN Append(poly.warnings, SmallHoleWarning(NumRemoved))
         ELSE poly.warnings

\* a region with a hole of exactly the threshold area, one just below it and
\* one above has been filtered: one hole removed, one warning
C6_Witness ==
  /\ filtered.pc = "done"
  /\ poly.poly.scale = <<1, 1>>
  /\ poly.poly.interiors = <<1225, 1224, 4900>>
  /\ filtered.poly.interiors = <<1225, 4900>>
  /\ filtered.warnings = Append(poly.warnings, SmallHoleWarning(1))

\* a raster reference as the extractor recognizes it
IsRasterReference(el) ==
  /\ el.tag # CommentTag
  /\ \/ el.tag \in {"image", "IMAGE"}
     \/ \E a \in DOMAIN el.attrib :
          /\ a \in {"href", XLinkHref}
          /\ el.attrib[a] \in {HrefPng, HrefDataPng, HrefDataSvgPng}

\* C5: a drawing that holds a raster reference fails with UnsupportedContent
\* whatever else it holds and wherever the reference stands.
C5_RasterRejected ==
  (extracted.pc # "called" /\ drawing.wellformed
     /\ \E k \in DOMAIN drawing.nodes : IsRasterReference(drawing.nodes[k])) =>
    (extracted.pc = "raised" /\ extracted.exc = "ConvertError:UnsupportedContent")

(***************************************************************************)
(* Claims about the whole conversion and the request handler               *)
(***************************************************************************)
\* the bounds the handler declares for the numeric parameters
\* (main.py lines 41-48), in hundredths
ParamsInBounds(args) ==
  /\ args.size_mm \in ALLOWED_SIZES
  /\ args.base_mm >= 200 /\ args.base_mm <= 2000
  /\ args.relief_mm >= 60 /\ args.relief_mm <= 600
  /\ args.min_line_mm >= 40 /\ args.min_line_mm <= 400

MeshStages == {"mesh", "mode", "combine", "export", "report", "returned"}

\* C3: a direct call of convert_svg_to_stl with a numeric parameter outside
\* its bounds never reaches mesh construction and never writes an output
\* file; when it ends, it ends with a typed conversion error.
C3_DirectCallRejectsOutOfBounds ==
  (call.caller = "direct" /\ ~ParamsInBounds(call)) =>
    /\ conv.pc \notin MeshStages
    /\ fs.out_file = "absent"

\* C4: on the success path the temporary directory still exists when the
\* file response reads the produced file.
C4_TempDirOutlivesResponse ==
  handler.pc = "send" => (fs.tempdir = "exists" /\ fs.out_file = "written")

CapabilityWarnings == {ScadMissingRaised, ScadMissingEngraved}

NumCapabilityWarnings ==
  Cardinality({k \in DOMAIN conv.warnings : conv.warnings[k] \in CapabilityWarnings})

Combined == conv.pc \in {"export", "report", "returned"}

\* C7: without the boolean capability the raised stamp is the concatenation
\* of slab and relief and the engraved stamp is the slab itself, exactly one
\* capability warning is appended and the conversion does not fail for it;
\* with the capability the stamp is the boolean union (raised) or the slab
\* minus the relief shifted down by its height (engraved), and no capability
\* warning is appended.
C7_MeshFallback ==
  /\ (conv.pc = "export" /\ ~scad_exists) =>
       /\ conv.mode = "raised" => conv.stamp = Concatenate(<<conv.base, conv.relief>>)
       /\ conv.mode = "engraved" => conv.stamp = conv.base
       /\ ~IsEmptyMesh(conv.stamp)
  /\ (conv.pc = "export" /\ scad_exists) =>
       /\ conv.mode = "raised" => conv.stamp = BooleanUnion(<<conv.base, conv.relief>>)
       /\ conv.mode = "engraved" =>
            conv.stamp =
              BooleanDifference(<<conv.base, TranslateZ(conv.relief, -call.relief_mm)>>)
  /\ Combined => NumCapabilityWarnings = (IF scad_exists THEN 0 ELSE 1)
  /\ (Combined /\ ~scad_exists) =>
       conv.warnings[Len(conv.warnings)] =
         (IF conv.mode = "raised" THEN ScadMissingRaised ELSE ScadMissingEngraved)
  /\ (conv.pc = "raised" /\ ~scad_exists) => conv.exc # "ConvertError:MeshEmpty"
  /\ (conv.pc = "returned" /\ ~scad_exists) =>
       /\ fs.out_file \in {"written", "deleted"}
       /\ conv.report.warnings = conv.warnings

\* an engraved conversion without the capability has returned: the stamp is
\* the processed slab and the last warning names the missing capability
C7_Witness ==
  /\ conv.pc = "returned"
  /\ ~scad_exists
  /\ conv.mode = "engraved"
  /\ conv.stamp = Process(BaseSlab(call.size_mm, call.base_mm))
  /\ conv.report.warnings # <<>>
  /\ conv.report.warnings[Len(conv.report.warnings)] = ScadMissingEngraved

\* the drawing holds open curves only
OnlyOpenCurves ==
  /\ drawing.nodes # <<>>
  /\ \A k \in DOMAIN drawing.nodes : drawing.nodes[k].tag = "polyline"

\* C8: the band of every open curve in the region set handed to the Mesh
\* Builder has, in physical units, half-width at least max(min_line/2, floor),
\* for every allowed min_line and every scale factor.
C8_MinimumBandWidth ==
  (/\ conv.pc \in MeshStages
   /\ OnlyOpenCurves
   /\ call.min_line_mm >= 40 /\ call.min_line_mm <= 400) =>
    \A k \in DOMAIN conv.geom.geoms :
      conv.geom.geoms[k].half * conv.geom.geoms[k].scale[1] >=
        HalfWidth(call.min_line_mm) * conv.geom.geoms[k].scale[2]

(***************************************************************************)
(* The failures of the Path Interpreter                                    *)
(***************************************************************************)
\* a path description of supported command letters and numbers only
OnlySupported(dd) == \A k \in DOMAIN dd : dd[k] \in SupportedLetters \/ IsNumber(dd[k])

\* C11: on every token sequence over the supported command letters and
\* numbers, also one where a command is followed by too few numbers or by a
\* command letter where a number is expected, the Path Interpreter fails, if
\* it fails, with ConvertError and with no other kind of exception.
C11_TypedFailuresOnly ==
  (OnlySupported(d) /\ interp.pc = "raised") => interp.exc \in ConvertErrors
====
